---- MODULE Spec2Model ----
(***************************************************************************)
(* Model of Music-Shelf-Manager (src/src/main.rs).                         *)
(*                                                                         *)
(* Strings are sequences of bytes.  Every string of the model is ASCII     *)
(* except for the single byte 255, which stands for a byte sequence that   *)
(* is not valid UTF-8; for such strings a character is one byte.           *)
(* A path is the sequence of strings pushed onto a PathBuf (absolute, the  *)
(* root directory "/" being the empty sequence).                           *)
(***************************************************************************)
EXTENDS Integers, Sequences, FiniteSets, TLC

VARIABLES
    \* ---- normalize_path_entry applied to one input (SpecNorm)
    path_entry,          \* the argument of normalize_path_entry
    normalized,          \* its return value, once computed
    \* ---- handle_tags applied to one input (SpecTags)
    tags,                \* the Vec<Result<&str, Error>> argument
    tag_pos,             \* how many elements the for loop has consumed
    result,              \* the accumulator `result` of handle_tags
    \* ---- the batch run of main (Spec)
    files,               \* args.files
    remove_source_file,  \* args.remove_source_file
    fs,                  \* regular files of the filesystem: path -> content
    dirs,                \* directories of the filesystem
    cur,                 \* index in files of the file being processed
    pc,                  \* position of main / handle_file
    required_tags,       \* RequiredTags built by handle_file
    target_path,         \* the path returned by generate_target_path
    file_result,         \* the value returned by handle_file
    removal,             \* "none", "ok" or "failed": fs::remove_file of the file
    snapshot,            \* the filesystem when the current iteration began
    log,                 \* the steps executed so far, in order
    history              \* one record per file whose loop iteration ended

normVars  == <<path_entry, normalized>>
tagVars   == <<tags, tag_pos, result>>
batchVars == <<files, remove_source_file, fs, dirs, cur, pc, required_tags,
               target_path, file_result, removal, snapshot, log,
               history>>
vars == <<normVars, tagVars, batchVars>>

------------------------------------------------------------------------------
(* Bounds *)

\* number of tokens an input of normalize_path_entry is built from
MaxTokens == 4
\* length of the file list of a batch
MaxFiles == 2

------------------------------------------------------------------------------
(* Generic helpers on strings *)

Min(S) == CHOOSE x \in S : \A y \in S : x <= y
Max(S) == CHOOSE x \in S : \A y \in S : x >= y

None == [some |-> FALSE]
Some(v) == [some |-> TRUE, val |-> v]

\* str::to_str / OsStr::to_str succeeds iff the bytes are valid UTF-8
IsUtf8(s) == \A k \in 1..Len(s) : s[k] < 128

------------------------------------------------------------------------------
(* Constant tables, main.rs lines 8-9 *)

\* '<', '>', ':', '"', '/', '\', '|', '?', '*'
FORBIDDEN_SYMBOLS == {60, 62, 58, 34, 47, 92, 124, 63, 42}

RESERVED_WINDOWS_NAMES ==
    { <<67, 79, 78>>,      \* CON
      <<80, 82, 78>>,      \* PRN
      <<65, 85, 88>>,      \* AUX
      <<78, 85, 76>>,      \* NUL
      <<67, 79, 77, 49>>, <<67, 79, 77, 50>>, <<67, 79, 77, 51>>,   \* COM1-3
      <<67, 79, 77, 52>>, <<67, 79, 77, 53>>, <<67, 79, 77, 54>>,   \* COM4-6
      <<67, 79, 77, 55>>, <<67, 79, 77, 56>>, <<67, 79, 77, 57>>,   \* COM7-9
      <<76, 80, 84, 49>>, <<76, 80, 84, 50>>, <<76, 80, 84, 51>>,   \* LPT1-3
      <<76, 80, 84, 52>>, <<76, 80, 84, 53>>, <<76, 80, 84, 54>>,   \* LPT4-6
      <<76, 80, 84, 55>>, <<76, 80, 84, 56>>, <<76, 80, 84, 57>>    \* LPT7-9
    }

\* "_" and "."
Underscore == <<95>>
extension_separator == <<46>>

------------------------------------------------------------------------------
(* normalize_path_entry, main.rs lines 153-168 *)

\* a replacement table that misses '/'
ReplaceForbiddenNoSlash(s) ==
    [k \in 1..Len(s) |->
        IF s[k] \in (FORBIDDEN_SYMBOLS \ {47}) THEN 95 ELSE s[k]]

\* .replace(FORBIDDEN_SYMBOLS, "_"): every forbidden character becomes '_'
ReplaceForbidden(s) ==
    [k \in 1..Len(s) |-> IF s[k] \in FORBIDDEN_SYMBOLS THEN 95 ELSE s[k]]

\* .replace(<the chars 0..=31>, ""): every control character is dropped
IsNotControl(c) == c \notin 0..31

RemoveControl(s) == SelectSeq(s, IsNotControl)

\* the index of the first occurrence of pat in s, 0 when there is none
FindFirst(s, pat) ==
    LET hits == {k \in 1..(Len(s) - Len(pat) + 1) :
                    SubSeq(s, k, k + Len(pat) - 1) = pat}
    IN IF hits = {} THEN 0 ELSE Min(hits)

\* the index of the last occurrence of pat in s, 0 when there is none
FindLast(s, pat) ==
    LET hits == {k \in 1..(Len(s) - Len(pat) + 1) :
                    SubSeq(s, k, k + Len(pat) - 1) = pat}
    IN IF hits = {} THEN 0 ELSE Max(hits)

\* a replacen that rewrites the last occurrence instead of the first
ReplaceLast(s, pat, to) ==
    LET k == FindLast(s, pat)
    IN IF k = 0 THEN s
       ELSE SubSeq(s, 1, k - 1) \o to \o SubSeq(s, k + Len(pat), Len(s))

\* str::replacen(pat, to, 1): the first occurrence of pat is replaced
ReplaceFirst(s, pat, to) ==
    LET k == FindFirst(s, pat)
    IN IF k = 0 THEN s
       ELSE SubSeq(s, 1, k - 1) \o to \o SubSeq(s, k + Len(pat), Len(s))

\* result.splitn(2, ".").first(): the text before the first '.', or all of it
FirstSplit(s) ==
    LET k == FindFirst(s, extension_separator)
    IN IF k = 0 THEN s ELSE SubSeq(s, 1, k - 1)

normalize_path_entry(s) ==
    LET cleaned == RemoveControl(ReplaceForbidden(s))
        filename == FirstSplit(cleaned)
    IN IF filename \in RESERVED_WINDOWS_NAMES
       THEN ReplaceFirst(cleaned, filename, Underscore)
       ELSE cleaned

------------------------------------------------------------------------------
(* handle_tags, main.rs lines 103-134 *)

Ok(v) == [ok |-> TRUE, val |-> v]
Err(e) == [ok |-> FALSE, err |-> e]

\* id3::Error::new(kind, description)
Error(kind, description) == [kind |-> kind, description |-> description]

\* a body of the for loop that returns at the first error
HandleTagShortCircuit(acc, current_tag) ==
    IF acc.ok
    THEN IF current_tag.ok
         THEN Ok(Append(acc.val, current_tag.val))
         ELSE Err(<<current_tag.err>>)
    ELSE acc

\* one iteration of the for loop: match result { ... }
HandleTag(acc, current_tag) ==
    IF acc.ok
    THEN IF current_tag.ok
         THEN Ok(Append(acc.val, current_tag.val))
         ELSE Err(<<current_tag.err>>)
    ELSE IF current_tag.ok
         THEN acc
         ELSE Err(Append(acc.err, current_tag.err))

RECURSIVE HandleTagsFrom(_, _, _)
HandleTagsFrom(acc, ts, k) ==
    IF k > Len(ts) THEN acc ELSE HandleTagsFrom(HandleTag(acc, ts[k]), ts, k + 1)

handle_tags(ts) == HandleTagsFrom(Ok(<<>>), ts, 1)

\* lines 78-82 of handle_file: Option::ok_or on the three lookups, in order
RequiredTagResults(tag) ==
    << IF tag.album_artist.some THEN Ok(tag.album_artist.val)
       ELSE Err(Error("NoTag", "No album artist found")),
       IF tag.album.some THEN Ok(tag.album.val)
       ELSE Err(Error("NoTag", "No album found")),
       IF tag.title.some THEN Ok(tag.title.val)
       ELSE Err(Error("NoTag", "No title found")) >>

------------------------------------------------------------------------------
(* Paths (std::path) and the filesystem (std::fs) as main.rs uses them *)

CurDir == <<46>>
ParentDir == <<46, 46>>

\* Path::components of an absolute path: "" and "." components are dropped
IsComponent(c) == c # <<>> /\ c # CurDir

Components(p) == SelectSeq(p, IsComponent)

\* Path::parent: the path without its final component; None for "/"
Parent(p) ==
    LET cs == Components(p)
    IN IF cs = <<>> THEN None ELSE Some(SubSeq(cs, 1, Len(cs) - 1))

\* Path::file_name: the final component unless it is ".."
FileName(p) ==
    LET cs == Components(p)
    IN IF cs = <<>> \/ cs[Len(cs)] = ParentDir THEN None ELSE Some(cs[Len(cs)])

\* Path::extension: the text after the last '.' of the file name; None when
\* there is no '.' or the only '.' is the first character
Extension(p) ==
    LET name == FileName(p)
    IN IF ~name.some THEN None
       ELSE LET k == FindLast(name.val, extension_separator)
            IN IF k <= 1 THEN None
               ELSE Some(SubSeq(name.val, k + 1, Len(name.val)))

\* the directory entry the operating system resolves a path to
RECURSIVE ResolveFrom(_, _, _)
ResolveFrom(acc, p, k) ==
    IF k > Len(p) THEN acc
    ELSE IF p[k] = <<>> \/ p[k] = CurDir THEN ResolveFrom(acc, p, k + 1)
    ELSE IF p[k] = ParentDir
         THEN ResolveFrom(IF acc = <<>> THEN acc
                          ELSE SubSeq(acc, 1, Len(acc) - 1), p, k + 1)
    ELSE ResolveFrom(Append(acc, p[k]), p, k + 1)

Resolve(p) == ResolveFrom(<<>>, p, 1)

\* the content of a file: its ID3 tag (None when it has none) and its bytes
Content(tag, data) == [tag |-> tag, data |-> data]

\* a file of zero bytes
EmptyContent == Content(None, 0)

Tag(album_artist, album, title) ==
    Some([album_artist |-> album_artist, album |-> album, title |-> title])

WriteFile(f, path, content) ==
    [q \in (DOMAIN f) \cup {path} |-> IF q = path THEN content ELSE f[q]]

DeleteFile(f, path) == [q \in (DOMAIN f) \ {path} |-> f[q]]

\* a tag reader that hands out an empty tag where it should fail
ReadFromPathEmptyTag(f, filepath) ==
    LET q == Resolve(filepath)
    IN IF q \notin DOMAIN f \/ ~f[q].tag.some
       THEN Ok([album_artist |-> None, album |-> None, title |-> None])
       ELSE Ok(f[q].tag.val)

\* Tag::read_from_path, line 72
ReadFromPath(f, filepath) ==
    LET q == Resolve(filepath)
    IN IF q \notin DOMAIN f THEN Err(Error("Io", "No such file"))
       ELSE IF ~f[q].tag.some THEN Err(Error("NoTag", "No tag found"))
       ELSE Ok(f[q].tag.val)

\* fs::create_dir_all(path): the ancestors are created from the top; the
\* call fails at the first one that is a regular file or that the system
\* refuses to create, leaving in place the directories made before it
CreateDirAll(f, d, path) ==
    LET P(k) == Resolve(SubSeq(path, 1, k))
        stops == {n \in 0..Len(path) :
                    /\ \A k \in 1..n : P(k) \notin DOMAIN f
                    /\ n < Len(path) => P(n + 1) \notin d}
    IN {[ok |-> n = Len(path), dirs |-> d \cup {P(k) : k \in 1..n}] : n \in stops}

\* fs::copy(source, target): the source is opened for reading, the target
\* is created or truncated, then the bytes are copied.  The target cannot be
\* opened when it names a directory or lies in a missing directory; the
\* system may also refuse the open or fail the write.
FsCopy(f, d, source, target) ==
    LET src == Resolve(source)
        dst == Resolve(target)
        last == target[Len(target)]
        openable == /\ src \in DOMAIN f
                    /\ last \notin {<<>>, CurDir, ParentDir}
                    /\ dst # <<>>
                    /\ dst \notin d
                    /\ SubSeq(dst, 1, Len(dst) - 1) \in d
        truncated == WriteFile(f, dst, EmptyContent)
    IN IF ~openable THEN {[ok |-> FALSE, fs |-> f]}
       ELSE {[ok |-> TRUE, fs |-> WriteFile(truncated, dst, truncated[src])],
             [ok |-> FALSE, fs |-> f],
             [ok |-> FALSE, fs |-> truncated]}

\* fs::remove_file(file): the system may refuse the removal
FsRemoveFile(f, file) ==
    LET src == Resolve(file)
    IN IF src \notin DOMAIN f THEN {[ok |-> FALSE, fs |-> f]}
       ELSE {[ok |-> TRUE, fs |-> DeleteFile(f, src)], [ok |-> FALSE, fs |-> f]}

\* Path::to_str of a whole path
PathIsUtf8(p) == \A k \in 1..Len(p) : IsUtf8(p[k])

------------------------------------------------------------------------------
(* generate_target_path, main.rs lines 136-151 *)

RequiredTags(artist, album, title) ==
    [artist |-> artist, album |-> album, title |-> title]

\* ext.to_str().unwrap() of line 143 panics on a non-UTF-8 extension
generate_target_path(source, root_folder, t) ==
    LET ext == Extension(source)
        full_target_filename ==
            IF ext.some
            THEN normalize_path_entry(t.title) \o extension_separator \o ext.val
            ELSE normalize_path_entry(t.title)
    IN IF ext.some /\ ~IsUtf8(ext.val) THEN [panic |-> TRUE]
       ELSE [panic |-> FALSE,
             path |-> root_folder \o << normalize_path_entry(t.artist),
                                       normalize_path_entry(t.album),
                                       full_target_filename >>]

------------------------------------------------------------------------------
(* copy_file, main.rs lines 170-181 *)

\* The argument of ok_or on line 172 is evaluated before the parent is looked
\* at, so target.to_str().unwrap() panics on any non-UTF-8 target.
copy_file(f, d, source, target) ==
    LET parent_dir == Parent(target)
    IN IF ~PathIsUtf8(target)
       THEN {[panic |-> TRUE, fs |-> f, dirs |-> d]}
       ELSE IF ~parent_dir.some
       THEN {[panic |-> FALSE, fs |-> f, dirs |-> d,
              result |-> Err(Error("InvalidInput",
                                   "Unexpected error while copying file to target"))]}
       ELSE UNION {
              IF ~mk.ok
              THEN {[panic |-> FALSE, fs |-> f, dirs |-> mk.dirs,
                     result |-> Err(Error("Io", "Cannot create directory"))]}
              ELSE {[panic |-> FALSE, fs |-> cp.fs, dirs |-> mk.dirs,
                     result |-> IF cp.ok THEN Ok(<<>>)
                                ELSE Err(Error("Io", "Failed to copy file"))]
                        : cp \in FsCopy(f, mk.dirs, source, target)}
              : mk \in CreateDirAll(f, d, parent_dir.val)}

------------------------------------------------------------------------------
(* The inputs of the batch: a target directory, a filesystem, file lists *)

\* args.target_directory: "/m"
TargetDirectory == << <<109>> >>

\* the directory "/i" holding the files to manage
InDir == << <<105>> >>

\* tag values: "a/", "a:", "a_", "b", "t", "CON", "..", ".", ""
ArtistSlash == <<97, 47>>
ArtistColon == <<97, 58>>
ArtistClean == <<97, 95>>
AlbumB == <<98>>
TitleT == <<116>>
TitleCon == <<67, 79, 78>>

\* "/i/1.x" and "/i/2.x": complete tags that sanitize to the same target
File1 == InDir \o << <<49, 46, 120>> >>
File2 == InDir \o << <<50, 46, 120>> >>
\* "/i/3.x": album artist only
File3 == InDir \o << <<51, 46, 120>> >>
\* "/i/4.x": a file without an ID3 tag
File4 == InDir \o << <<52, 46, 120>> >>
\* "/m/a_/b/t.x": a file that already lies where its tags send it
File5 == TargetDirectory \o << ArtistClean, AlbumB, <<116, 46, 120>> >>
\* "/i/6.<FF>": complete tags, an extension that is not UTF-8
File6 == InDir \o << <<54, 46, 255>> >>
\* "/i/7.x": artist "..", title "CON"
File7 == InDir \o << <<55, 46, 120>> >>
\* "/i/8": no extension, artist "", album "."
File8 == InDir \o << <<56>> >>
\* "/i/9.x": a path where there is no file
File9 == InDir \o << <<57, 46, 120>> >>

InputFiles == {File1, File2, File3, File4, File5, File6, File7, File8, File9}

InitialFiles ==
    (File1 :> Content(Tag(Some(ArtistSlash), Some(AlbumB), Some(TitleT)), 1)) @@
    (File2 :> Content(Tag(Some(ArtistColon), Some(AlbumB), Some(TitleT)), 2)) @@
    (File3 :> Content(Tag(Some(ArtistClean), None, None), 3)) @@
    (File4 :> Content(None, 4)) @@
    (File5 :> Content(Tag(Some(ArtistClean), Some(AlbumB), Some(TitleT)), 5)) @@
    (File6 :> Content(Tag(Some(ArtistClean), Some(AlbumB), Some(TitleT)), 6)) @@
    (File7 :> Content(Tag(Some(ParentDir), Some(AlbumB), Some(TitleCon)), 7)) @@
    (File8 :> Content(Tag(Some(<<>>), Some(CurDir), Some(TitleT)), 8))

InitialDirs ==
    {<<>>, InDir, TargetDirectory, TargetDirectory \o <<ArtistClean>>,
     TargetDirectory \o <<ArtistClean, AlbumB>>}

FileLists == UNION {[1..n -> InputFiles] : n \in 0..MaxFiles}

------------------------------------------------------------------------------
(* main and handle_file, main.rs lines 32-100 *)

Event(op) == [file |-> cur, op |-> op]

BatchIdle ==
    /\ files = <<>> /\ remove_source_file = FALSE
    /\ fs = <<>> /\ dirs = {} /\ cur = 0 /\ pc = "idle"
    /\ required_tags = None /\ target_path = None /\ file_result = None
    /\ removal = "none" /\ snapshot = None /\ log = <<>> /\ history = <<>>

NormIdle == path_entry = <<>> /\ normalized = None

TagIdle == tags = <<>> /\ tag_pos = 0 /\ result = None

Init ==
    /\ NormIdle /\ TagIdle
    /\ files \in FileLists
    /\ remove_source_file \in BOOLEAN
    /\ fs = InitialFiles
    /\ dirs = InitialDirs
    /\ cur = 0
    /\ pc = "start"
    /\ required_tags = None /\ target_path = None /\ file_result = None
    /\ removal = "none"
    /\ snapshot = None
    /\ log = <<>>
    /\ history = <<>>

\* lines 33-50: an empty file list ends the process with status 2
Start ==
    /\ pc = "start"
    /\ IF Len(files) = 0
       THEN pc' = "exit2" /\ UNCHANGED <<cur, snapshot>>
       ELSE /\ pc' = "validate"
            /\ cur' = 1
            /\ snapshot' = Some([fs |-> fs, dirs |-> dirs])
    /\ UNCHANGED <<files, remove_source_file, fs, dirs, required_tags,
                   target_path, file_result, removal, log, history>>
    /\ UNCHANGED <<normVars, tagVars>>

\* handle_file lines 72-95: read the tag, check the three required fields
Validate ==
    /\ pc = "validate"
    /\ LET tag_result == ReadFromPath(fs, files[cur])
       IN IF ~tag_result.ok
          THEN /\ file_result' = Some(Err(<<tag_result.err>>))
               /\ pc' = "print"
               /\ UNCHANGED required_tags
          ELSE LET checked == handle_tags(RequiredTagResults(tag_result.val))
               IN IF checked.ok
                  THEN /\ required_tags' = Some(RequiredTags(checked.val[1],
                                                             checked.val[2],
                                                             checked.val[3]))
                       /\ pc' = "build"
                       /\ UNCHANGED file_result
                  ELSE /\ file_result' = Some(Err(checked.err))
                       /\ pc' = "print"
                       /\ UNCHANGED required_tags
    /\ log' = Append(log, Event("validate"))
    /\ UNCHANGED <<files, remove_source_file, fs, dirs, cur, target_path,
                   removal, snapshot, history>>
    /\ UNCHANGED <<normVars, tagVars>>

\* handle_file line 97
GenerateTargetPath ==
    /\ pc = "build"
    /\ LET built == generate_target_path(files[cur], TargetDirectory,
                                         required_tags.val)
       IN IF built.panic
          THEN pc' = "panic" /\ UNCHANGED target_path
          ELSE pc' = "copy" /\ target_path' = Some(built.path)
    /\ log' = Append(log, Event("build"))
    /\ UNCHANGED <<files, remove_source_file, fs, dirs, cur, required_tags,
                   file_result, removal, snapshot, history>>
    /\ UNCHANGED <<normVars, tagVars>>

\* handle_file line 98
CopyFile ==
    /\ pc = "copy"
    /\ \E o \in copy_file(fs, dirs, files[cur], target_path.val) :
          /\ fs' = o.fs
          /\ dirs' = o.dirs
          /\ IF o.panic
             THEN pc' = "panic" /\ UNCHANGED file_result
             ELSE /\ pc' = "print"
                  /\ file_result' = Some(IF o.result.ok THEN o.result
                                         ELSE Err(<<o.result.err>>))
    /\ log' = Append(log, Event("copy"))
    /\ UNCHANGED <<files, remove_source_file, cur, required_tags, target_path,
                   removal, snapshot, history>>
    /\ UNCHANGED <<normVars, tagVars>>

\* a report step that writes out failures only
PrintOnlyErrors ==
    /\ pc = "print"
    /\ log' = IF file_result.val.ok THEN log
              ELSE Append(log, [file |-> cur, op |-> "print",
                                result |-> file_result.val])
    /\ pc' = "remove"
    /\ UNCHANGED <<files, remove_source_file, fs, dirs, cur, required_tags,
                   target_path, file_result, removal, snapshot, history>>
    /\ UNCHANGED <<normVars, tagVars>>

\* main lines 53-54 and print_handling_status: the outcome is written out
PrintHandlingStatus ==
    /\ pc = "print"
    /\ log' = Append(log, [file |-> cur, op |-> "print",
                           result |-> file_result.val])
    /\ pc' = "remove"
    /\ UNCHANGED <<files, remove_source_file, fs, dirs, cur, required_tags,
                   target_path, file_result, removal, snapshot, history>>
    /\ UNCHANGED <<normVars, tagVars>>

\* a removal condition that forgets the outcome of the file
ShouldRemoveAlways == remove_source_file

\* main line 56
ShouldRemove == remove_source_file /\ file_result.val.ok

\* the end of an iteration of the for loop of line 50
EndIteration(newfs, removed, newlog) ==
    /\ fs' = newfs
    /\ log' = newlog
    /\ history' = Append(history,
                         [source |-> files[cur], target |-> target_path,
                          result |-> file_result.val, removal |-> removed,
                          before |-> snapshot.val,
                          after |-> [fs |-> newfs, dirs |-> dirs]])
    /\ snapshot' = Some([fs |-> newfs, dirs |-> dirs])
    /\ required_tags' = None /\ target_path' = None /\ file_result' = None
    /\ removal' = "none"
    /\ IF cur < Len(files)
       THEN cur' = cur + 1 /\ pc' = "validate"
       ELSE pc' = "done" /\ UNCHANGED cur

\* main lines 56-66: the source is removed after a success, a failed removal
\* prints a warning
RemoveSource ==
    /\ pc = "remove"
    /\ IF ShouldRemove
       THEN \E o \in FsRemoveFile(fs, files[cur]) :
              IF o.ok
              THEN EndIteration(o.fs, "ok", Append(log, Event("remove")))
              ELSE EndIteration(o.fs, "failed",
                                log \o <<Event("remove"), Event("warn")>>)
       ELSE EndIteration(fs, "none", log)
    /\ UNCHANGED <<files, remove_source_file, dirs>>
    /\ UNCHANGED <<normVars, tagVars>>

Next ==
    \/ Start
    \/ Validate
    \/ GenerateTargetPath
    \/ CopyFile
    \/ PrintHandlingStatus
    \/ RemoveSource

Spec == Init /\ [][Next]_vars

------------------------------------------------------------------------------
(* normalize_path_entry on its own *)

\* "CON", "COM1", ".", "/", the control character 31, "C", "ON", "a"
Tokens == {<<67, 79, 78>>, <<67, 79, 77, 49>>, <<46>>, <<47>>, <<31>>, <<67>>,
           <<79, 78>>, <<97>>}

RECURSIVE Flatten(_)
Flatten(ts) == IF ts = <<>> THEN <<>> ELSE Head(ts) \o Flatten(Tail(ts))

NormInputs == {Flatten(ts) : ts \in UNION {[1..n -> Tokens] : n \in 0..MaxTokens}}

InitNorm ==
    /\ BatchIdle /\ TagIdle
    /\ path_entry \in NormInputs
    /\ normalized = None

Normalize ==
    /\ ~normalized.some
    /\ pc = "idle"
    /\ normalized' = Some(normalize_path_entry(path_entry))
    /\ UNCHANGED <<path_entry, tagVars, batchVars>>

NextNorm == Normalize

SpecNorm == InitNorm /\ [][NextNorm]_vars

------------------------------------------------------------------------------
(* handle_tags on its own *)

\* "a", "", "CON"
TagValues == {<<97>>, <<>>, <<67, 79, 78>>}

TagHandles ==
    {t.val : t \in {Tag(a, b, c) : a \in {None} \cup {Some(v) : v \in TagValues},
                                   b \in {None} \cup {Some(v) : v \in TagValues},
                                   c \in {None} \cup {Some(v) : v \in TagValues}}}

InitTags ==
    /\ BatchIdle /\ NormIdle
    /\ tags \in {RequiredTagResults(t) : t \in TagHandles}
    /\ tag_pos = 0
    /\ result = Ok(<<>>)

\* one iteration of the for loop of line 106
HandleTagStep ==
    /\ pc = "idle"
    /\ tag_pos < Len(tags)
    /\ result' = HandleTag(result, tags[tag_pos + 1])
    /\ tag_pos' = tag_pos + 1
    /\ UNCHANGED <<tags, normVars, batchVars>>

NextTags == HandleTagStep

SpecTags == InitTags /\ [][NextTags]_vars

------------------------------------------------------------------------------
(* Properties of handle_tags (SpecTags) *)

IsErr(r) == ~r.ok

\* C1: once the loop of handle_tags has consumed the three lookups (album
\* artist, album, title), the result is Ok with the three values in that
\* order iff all three are present; otherwise it is Err, with one error per
\* absent field and the errors in artist, album, title order.
C1_ValidationTotal ==
    (pc = "idle" /\ Len(tags) = 3 /\ tag_pos = 3) =>
        LET bad == SelectSeq(tags, IsErr)
        IN IF bad = <<>>
           THEN result = Ok(<<tags[1].val, tags[2].val, tags[3].val>>)
           ELSE /\ ~result.ok
                /\ Len(result.err) = Cardinality({k \in 1..3 : ~tags[k].ok})
                /\ result.err = [k \in 1..Len(bad) |-> bad[k].err]

\* the artist and the title are absent, the album between them is present
C1_Witness ==
    /\ pc = "idle" /\ Len(tags) = 3 /\ tag_pos = 3
    /\ ~tags[1].ok /\ tags[2].ok /\ ~tags[3].ok
    /\ ~result.ok /\ Len(result.err) = 2
    /\ result.err[2].description = "No title found"

------------------------------------------------------------------------------
(* Properties of normalize_path_entry (SpecNorm) *)

Cleaned(s) == RemoveControl(ReplaceForbidden(s))

\* C2: the value returned by normalize_path_entry has no forbidden
\* character, no character in 0..31, and the text before its first '.'
\* is not a reserved device name.
C2_ValidPathSegment ==
    normalized.some =>
        LET r == normalized.val
        IN /\ \A k \in 1..Len(r) : r[k] \notin FORBIDDEN_SYMBOLS
           /\ \A k \in 1..Len(r) : r[k] \notin 0..31
           /\ FirstSplit(r) \notin RESERVED_WINDOWS_NAMES

\* an input with a forbidden character, a control character and a
\* reserved name before its first '.'
C2_Witness ==
    /\ normalized.some
    /\ \E k \in 1..Len(path_entry) : path_entry[k] \in FORBIDDEN_SYMBOLS
    /\ \E k \in 1..Len(path_entry) : path_entry[k] \in 0..31
    /\ FirstSplit(Cleaned(path_entry)) \in RESERVED_WINDOWS_NAMES
    /\ Len(normalized.val) > 1

\* C8: when the text before the first '.' of the cleaned string is a
\* reserved name, the result is "_" followed by the cleaned string from
\* its first '.' on; otherwise the result is the cleaned string.
C8_ReservedPrefixReplaced ==
    normalized.some =>
        LET cleaned == Cleaned(path_entry)
            prefix == FirstSplit(cleaned)
        IN IF prefix \in RESERVED_WINDOWS_NAMES
           THEN normalized.val =
                    Underscore \o SubSeq(cleaned, Len(prefix) + 1, Len(cleaned))
           ELSE normalized.val = cleaned

\* the rule fired on a string that holds the reserved name a second time
C8_Witness ==
    /\ normalized.some
    /\ FirstSplit(Cleaned(path_entry)) \in RESERVED_WINDOWS_NAMES
    /\ FindLast(Cleaned(path_entry), FirstSplit(Cleaned(path_entry))) > 1
    /\ FindFirst(normalized.val, FirstSplit(Cleaned(path_entry))) > 1

------------------------------------------------------------------------------
(* Properties of the batch (Spec) *)

\* the file at this path cannot be read as a tag source
TagUnreadable(f, path) ==
    Resolve(path) \notin DOMAIN f \/ ~f[Resolve(path)].tag.some

\* the tag is readable and lacks one of the three required fields
FieldAbsent(f, path) ==
    /\ ~TagUnreadable(f, path)
    /\ LET tag == f[Resolve(path)].tag.val
       IN ~tag.album_artist.some \/ ~tag.album.some \/ ~tag.title.some

MissingFieldMessages ==
    {"No album artist found", "No album found", "No title found"}

OpsOf(k) == {log[j].op : j \in {j \in 1..Len(log) : log[j].file = k}}

\* C3: a file whose validation fails ends with the error outcome, no path
\* is built, copy_file is not called, the source is not removed and the
\* filesystem is as it was before the file; an unreadable tag source gives
\* exactly one error, which is not a missing-field error.
C3_ValidationFailureLeavesFilesystem ==
    \A k \in 1..Len(history) :
        LET h == history[k]
        IN (TagUnreadable(h.before.fs, h.source) \/ FieldAbsent(h.before.fs, h.source)) =>
             /\ ~h.result.ok
             /\ h.target = None
             /\ h.removal = "none"
             /\ h.after = h.before
             /\ OpsOf(k) = {"validate", "print"}
             /\ TagUnreadable(h.before.fs, h.source) =>
                   /\ Len(h.result.err) = 1
                   /\ h.result.err[1].description \notin MissingFieldMessages

\* with the remove-source option on: a file with two absent fields got its
\* two errors, and a file without tag got its single error
C3_Witness ==
    /\ remove_source_file
    /\ Len(history) = 2
    /\ FieldAbsent(history[1].before.fs, history[1].source)
    /\ Len(history[1].result.err) = 2
    /\ TagUnreadable(history[2].before.fs, history[2].source)
    /\ Len(history[2].result.err) = 1

\* C4: the removal of the source is attempted iff the remove-source option
\* is on and the outcome is success; after a failed removal the reported
\* outcome is success, a warning was written, and both the source and the
\* destination exist.
C4_RemovalOnlyAfterSuccess ==
    \A k \in 1..Len(history) :
        LET h == history[k]
        IN /\ (h.removal # "none") <=> (remove_source_file /\ h.result.ok)
           /\ ("remove" \in OpsOf(k)) <=> (remove_source_file /\ h.result.ok)
           /\ h.removal = "failed" =>
                /\ h.result.ok
                /\ \A j \in 1..Len(log) :
                      (log[j].file = k /\ log[j].op = "print") => log[j].result.ok
                /\ "warn" \in OpsOf(k)
                /\ Resolve(h.source) \in DOMAIN h.after.fs
                /\ Resolve(h.target.val) \in DOMAIN h.after.fs
           /\ h.removal # "failed" => "warn" \notin OpsOf(k)

\* a removal failed, and an earlier file that failed was not removed
C4_Witness ==
    /\ remove_source_file
    /\ Len(history) = 2
    /\ ~history[1].result.ok
    /\ history[2].removal = "failed"

Prints == SelectSeq(log, LAMBDA e : e.op = "print")

\* C5: a batch over a non-empty file list ends only after every file got
\* exactly one reported outcome, in input order.
C5_BatchRunsToCompletion ==
    (pc \in {"done", "panic"}) =>
        /\ Len(Prints) = Len(files)
        /\ \A k \in 1..Len(Prints) : Prints[k].file = k

\* C6 as claimed: the removal attempt of a file precedes its report.
C6_RemovalPrecedesReport ==
    \A j, k \in 1..Len(log) :
        (log[j].file = log[k].file /\ log[j].op = "remove" /\ log[k].op = "print")
            => j < k

Rank(op) ==
    CASE op = "validate" -> 1
      [] op = "build" -> 2
      [] op = "copy" -> 3
      [] op = "print" -> 4
      [] op = "remove" -> 5
      [] op = "warn" -> 6

\* the step that comes before a step within one file
Requires(op) ==
    CASE op = "validate" -> "validate"
      [] op = "build" -> "validate"
      [] op = "copy" -> "build"
      [] op = "print" -> "validate"
      [] op = "remove" -> "print"
      [] op = "warn" -> "remove"

\* C6 (amended): within a file the steps occur in the order validate, build
\* path, copy, report, source removal; every step of a file comes after all
\* steps of the files before it; the report of a file precedes its removal.
C6_PipelineOrder ==
    /\ \A j, k \in 1..Len(log) :
          j < k => /\ log[j].file <= log[k].file
                   /\ log[j].file = log[k].file => Rank(log[j].op) < Rank(log[k].op)
    /\ \A k \in 1..Len(log) :
          \E j \in 1..k : log[j].file = log[k].file /\ log[j].op = Requires(log[k].op)

\* two files went through the whole pipeline, the first one with a removal
C6_Witness ==
    /\ pc = "done"
    /\ Len(files) = 2
    /\ OpsOf(1) = {"validate", "build", "copy", "print", "remove", "warn"}
    /\ OpsOf(2) = {"validate", "build", "copy", "print", "remove"}

\* C7: when two distinct source files of a batch both succeed with the same
\* target, the target holds the content of the later one after it.
C7_LaterCopyWins ==
    \A j, k \in 1..Len(history) :
        (/\ j < k
         /\ Resolve(history[j].source) # Resolve(history[k].source)
         /\ history[j].result.ok /\ history[k].result.ok
         /\ Resolve(history[j].target.val) = Resolve(history[k].target.val)) =>
            LET h == history[k]
                dst == Resolve(h.target.val)
            IN /\ dst \in DOMAIN h.after.fs
               /\ h.after.fs[dst] = h.before.fs[Resolve(h.source)]

\* C9: the path returned by generate_target_path resolves to exactly three
\* components below the root: the sanitized artist, the sanitized album and
\* the file name.
C9_TargetBelowRoot ==
    target_path.some =>
        LET r == Resolve(target_path.val)
            n == Len(TargetDirectory)
        IN /\ Len(r) = n + 3
           /\ SubSeq(r, 1, n) = TargetDirectory
           /\ r[n + 1] = normalize_path_entry(required_tags.val.artist)
           /\ r[n + 2] = normalize_path_entry(required_tags.val.album)

\* C10: after a success the target holds the content the source had before
\* the pipeline of the file began.
C10_TargetHoldsSourceContent ==
    \A k \in 1..Len(history) :
        LET h == history[k]
        IN h.result.ok =>
             /\ Resolve(h.target.val) \in DOMAIN h.after.fs
             /\ h.after.fs[Resolve(h.target.val)] = h.before.fs[Resolve(h.source)]

====
